---- MODULE Spec2Model ----
(***************************************************************************)
(* pytest-gitscope: impact selection of test files from changed files.     *)
(*                                                                         *)
(* selector.py  ModulesRegistry, select_files, list_dependencies           *)
(* plugin.py    pytest_collection_modifyitems (short circuits, filtering)  *)
(*                                                                         *)
(* A dotted module name "a.b.c" is the sequence <<"a","b","c">>; None (as  *)
(* a package) is the empty sequence, which `if package:` treats like "".   *)
(* A path "x/m.py" is the record [dir |-> <<"x">>, stem |-> "m",           *)
(* ext |-> "py"]; None (as a file) is NoFile.                              *)
(***************************************************************************)
EXTENDS Integers, Sequences, FiniteSets, TLC

VARIABLES
    project,        \* the file system and importable modules of the run (input)
    targets,        \* select_files argument target_files, as the caller holds it
    changed,        \* select_files argument changed_files, as the caller holds it
    by_fullnames,   \* ModulesRegistry.by_fullnames
    inverse,        \* ModulesRegistry.inverse
    memo,           \* the functools.cache of list_dependencies: arguments -> set returned
    pc,             \* position in select_files
    target_files,   \* local target_files of select_files
    selection,      \* local selection
    queued,         \* local queued
    explored,       \* local explored
    round,          \* number of iterations of `for _ in range(100)` begun
    todo,           \* targets of the Step 1 loop not yet visited
    tmp,            \* items of tmp not yet visited in the current round
    cur,            \* target_file of the current iteration over tmp
    work,           \* edges of `dependencies` not yet visited
    acc,            \* local acc
    error,          \* the exception select_files ended with
    calls,          \* per target, the calls of list_dependencies made so far
    begun,          \* selection, explored and the targets of tmp as the round began
    finds,          \* per module name, the number of find_spec fallbacks of get
    prev,           \* outcome of the previous call of select_files in this history
    plugin          \* state of pytest_collection_modifyitems

vars == <<project, targets, changed, by_fullnames, inverse, memo, pc,
          target_files, selection, queued, explored, round, todo, tmp, cur,
          work, acc, error, calls, begun, finds, prev, plugin>>

-----------------------------------------------------------------------------
(* Values *)

NoFile == [dir |-> <<>>, stem |-> "", ext |-> ""]

NoName == <<>>

Py(dir, stem) == [dir |-> dir, stem |-> stem, ext |-> "py"]

Import(name) ==
    [kind |-> "Import", module |-> <<>>, name |-> name, level |-> 0]

ImportFrom(module, name, level) ==
    [kind |-> "ImportFrom", module |-> module, name |-> <<name>>, level |-> level]

Source(file, imports) == [file |-> file, status |-> "ok", imports |-> imports]

Broken(file, status) == [file |-> file, status |-> status, imports |-> {}]

Range(s) == {s[i] : i \in 1..Len(s)}

\* s[-n:]
LastN(s, n) ==
    IF n = 0 \/ n >= Len(s) THEN s ELSE SubSeq(s, Len(s) - n + 1, Len(s))

-----------------------------------------------------------------------------
(* The range of `for _ in range(100)` *)

MaxRounds == 100

-----------------------------------------------------------------------------
(* Projects: the files on disk (their import statements), the modules      *)
(* already loaded (the seed of the registry, in dict order) and what       *)
(* importlib.util.find_spec answers.  `project` names one of them.         *)

GenStems == {"p", "q", "r"}

Gen(s) == Py(<<>>, s)

Proj(kind, edges, len) == [kind |-> kind, edges |-> edges, len |-> len]

Spec3(name, origin, inroot) == [name |-> name, origin |-> origin, inroot |-> inroot]

Tree(sources, seed, specs, targetsets, changedsets) ==
    [sources |-> sources, seed |-> seed, specs |-> specs,
     targetsets |-> targetsets, changedsets |-> changedsets]

\* every import graph over p, q, r; p and q are loaded, r is found lazily
GenericTree(edges) ==
    Tree({Source(Gen(s), {Import(<<e[2]>>) : e \in {x \in edges : x[1] = s}})
            : s \in GenStems},
         << <<(<<"p">>), Gen("p")>>, <<(<<"q">>), Gen("q")>> >>,
         {Spec3(<<"r">>, Gen("r"), TRUE)},
         SUBSET {Gen("p"), Gen("q")},
         SUBSET {Gen(s) : s \in GenStems})

\* x/m.py is loaded under two names
AliasTree ==
    Tree({Source(Gen("t"), {Import(<<"a", "m">>), Import(<<"b", "m">>)}),
          Source(Py(<<"x">>, "m"), {ImportFrom(<<>>, "z", 2)}),
          Source(Gen("c"), {})},
         << <<(<<"t">>), Gen("t")>>,
            <<(<<"a">>), NoFile>>,
            <<(<<"b">>), NoFile>>,
            <<(<<"a", "m">>), Py(<<"x">>, "m")>>,
            <<(<<"b", "m">>), Py(<<"x">>, "m")>>,
            <<(<<"a", "m", "z">>), Gen("c")>>,
            <<(<<"b", "m", "z">>), NoFile>> >>,
         {},
         {{Gen("t")}},
         {{}, {Gen("c")}, {Gen("c"), Py(<<"x">>, "m")}})

\* a package, a subpackage and a module in it; only submodules are imported
PackageTree ==
    Tree({Source(Gen("t1"), {Import(<<"pkg", "sub", "leaf">>)}),
          Source(Gen("t2"), {Import(<<"mid">>)}),
          Source(Gen("mid"), {ImportFrom(<<"pkg", "sub">>, "leaf", 0), Import(<<"os">>)}),
          Source(Py(<<"pkg">>, "__init__"), {}),
          Source(Py(<<"pkg", "sub">>, "__init__"), {}),
          Source(Py(<<"pkg", "sub">>, "leaf"), {})},
         << <<(<<"t1">>), Gen("t1")>>,
            <<(<<"t2">>), Gen("t2")>>,
            <<(<<"mid">>), Gen("mid")>> >>,
         {Spec3(<<"pkg">>, Py(<<"pkg">>, "__init__"), TRUE),
          Spec3(<<"pkg", "sub">>, Py(<<"pkg", "sub">>, "__init__"), TRUE),
          Spec3(<<"pkg", "sub", "leaf">>, Py(<<"pkg", "sub">>, "leaf"), TRUE),
          Spec3(<<"os">>, Py(<<"usr", "lib">>, "os"), FALSE)},
         SUBSET {Gen("t1"), Gen("t2")},
         SUBSET {Py(<<"pkg">>, "__init__"), Py(<<"pkg", "sub">>, "__init__"),
                 Py(<<"pkg", "sub">>, "leaf")})

\* relative imports; tests/test_a.py is not loaded, tests/test_b.py is;
\* tests/helper.py and tests/test_d.py import from above their package context
RelativeTree ==
    Tree({Source(Py(<<"tests">>, "test_a"),
                 {ImportFrom(<<>>, "helper", 1), ImportFrom(<<"util">>, "f", 1)}),
          Source(Py(<<"tests">>, "test_b"), {ImportFrom(<<>>, "core", 2)}),
          Source(Py(<<"tests">>, "test_c"), {ImportFrom(<<"util">>, "f", 1)}),
          Source(Py(<<"tests">>, "test_d"), {ImportFrom(<<"far">>, "f", 3)}),
          Source(Py(<<"tests">>, "helper"), {ImportFrom(<<>>, "deep", 3)}),
          Source(Py(<<"tests">>, "util"), {}),
          Source(Gen("core"), {})},
         << <<(<<"tests", "test_b">>), Py(<<"tests">>, "test_b")>>,
            <<(<<"test_a", "helper">>), Py(<<"tests">>, "helper")>>,
            <<(<<"test_c", "util">>), Py(<<"tests">>, "util")>> >>,
         {Spec3(<<"tests", "test_b", "core">>, Gen("core"), TRUE)},
         {{Py(<<"tests">>, "test_a")}, {Py(<<"tests">>, "test_b")},
          {Py(<<"tests">>, "test_c")}, {Py(<<"tests">>, "test_d")},
          {Py(<<"tests">>, "test_b"), Py(<<"tests">>, "test_c")}},
         {{}, {Gen("core")}, {Py(<<"tests">>, "util")},
          {Py(<<"tests">>, "helper")}, {Py(<<"tests">>, "test_a")}})

\* files that cannot be parsed or read
BrokenTree ==
    Tree({Source(Gen("t"), {Import(<<"good">>), Import(<<"bad">>)}),
          Source(Gen("u"), {Import(<<"good">>)}),
          Source(Gen("good"), {Import(<<"gone">>), Import(<<"chg">>)}),
          Source(Gen("chg"), {}),
          Broken(Gen("bad"), "SyntaxError"),
          Broken(Gen("tb"), "SyntaxError")},
         << <<(<<"t">>), Gen("t")>>,
            <<(<<"u">>), Gen("u")>>,
            <<(<<"good">>), Gen("good")>>,
            <<(<<"bad">>), Gen("bad")>>,
            <<(<<"chg">>), Gen("chg")>>,
            <<(<<"gone">>), Gen("gone")>> >>,
         {},
         {{Gen("t")}, {Gen("u")}, {Gen("tb")}, {Gen("t"), Gen("tb")},
          {Gen("u"), Gen("tb")}},
         SUBSET {Gen("chg"), Gen("tb"), Gen("bad")})

\* A -> B, A -> C, B -> D, C -> D, and D -> A closes a cycle
DiamondTree ==
    Tree({Source(Gen("A"), {Import(<<"B">>), Import(<<"C">>)}),
          Source(Gen("B"), {Import(<<"D">>)}),
          Source(Gen("C"), {Import(<<"D">>)}),
          Source(Gen("D"), {Import(<<"A">>), Import(<<"E">>)}),
          Source(Gen("E"), {})},
         << <<(<<"A">>), Gen("A")>>, <<(<<"B">>), Gen("B")>>,
            <<(<<"C">>), Gen("C")>>, <<(<<"D">>), Gen("D")>>,
            <<(<<"E">>), Gen("E")>> >>,
         {},
         {{Gen("A")}, {Gen("A"), Gen("B")}},
         SUBSET {Gen("D"), Gen("E")})

\* t -> m1 -> ... -> m<len> -> {g1, g2}, g1 -> g2: as deep as the round cap
Link(i) == Gen("m" \o ToString(i))

ChainTree(len) ==
    Tree({Source(Gen("t"), {Import(<<"m1">>)}),
          Source(Link(len), {Import(<<"g1">>), Import(<<"g2">>)}),
          Source(Gen("g1"), {Import(<<"g2">>)}),
          Source(Gen("g2"), {})}
            \cup {Source(Link(i), {Import(<<"m" \o ToString(i + 1)>>)}) : i \in 1..(len - 1)},
         << <<(<<"t">>), Gen("t")>> >>,
         {Spec3(<<"g1">>, Gen("g1"), TRUE), Spec3(<<"g2">>, Gen("g2"), TRUE)}
            \cup {Spec3(<<"m" \o ToString(i)>>, Link(i), TRUE) : i \in 1..len},
         {{Gen("t")}},
         {{}, {Gen("g2")}})

\* chains of 99 to 103 files
ChainLens == {MaxRounds - 4, MaxRounds - 2, MaxRounds - 1, MaxRounds}

\* t -> m1 -> ... -> m<len> -> t, and m<len> imports itself: a cycle through
\* every file of the project
RingTree(len) ==
    Tree({Source(Gen("t"), {Import(<<"m1">>)}),
          Source(Link(len), {Import(<<"t">>), Import(<<"m" \o ToString(len)>>)})}
            \cup {Source(Link(i), {Import(<<"m" \o ToString(i + 1)>>)}) : i \in 1..(len - 1)},
         << <<(<<"t">>), Gen("t")>> >>,
         {Spec3(<<"m" \o ToString(i)>>, Link(i), TRUE) : i \in 1..len},
         {{Gen("t")}},
         {{}})

\* rings of 99 and 100 files
RingLens == {MaxRounds - 2, MaxRounds - 1}

Projects ==
    {Proj("generic", e, 0) : e \in SUBSET (GenStems \X GenStems)}
        \cup {Proj(k, {}, 0) : k \in {"alias", "package", "relative", "broken", "diamond"}}
        \cup {Proj("chain", {}, n) : n \in ChainLens}
        \cup {Proj("ring", {}, n) : n \in RingLens}

TreeOf(p) ==
    CASE p.kind = "generic" -> GenericTree(p.edges)
      [] p.kind = "alias" -> AliasTree
      [] p.kind = "package" -> PackageTree
      [] p.kind = "relative" -> RelativeTree
      [] p.kind = "broken" -> BrokenTree
      [] p.kind = "diamond" -> DiamondTree
      [] p.kind = "chain" -> ChainTree(p.len)
      [] p.kind = "ring" -> RingTree(p.len)

Catalog == [p \in Projects |-> TreeOf(p)]

\* per project, the files on disk by path
Disk ==
    [p \in Projects |->
        LET src == TreeOf(p).sources
        IN [f \in {x.file : x \in src} |-> CHOOSE x \in src : x.file = f]]

\* per project, the modules find_spec finds by name
Finder ==
    [p \in Projects |->
        LET sp == TreeOf(p).specs
        IN [n \in {x.name : x \in sp} |-> CHOOSE x \in sp : x.name = n]]

\* per project, the number of project files a module name can resolve to
FileCount ==
    [p \in Projects |->
        Cardinality(({it[2] : it \in Range(TreeOf(p).seed)} \ {NoFile})
                        \cup {sp.origin : sp \in {x \in TreeOf(p).specs : x.inroot}})]

-----------------------------------------------------------------------------
(* ModulesRegistry *)

\* a dict built by inserting the pairs of `items` in order (a later key wins)
DictOf(items) ==
    [k \in {items[i][1] : i \in 1..Len(items)} |->
        items[CHOOSE i \in 1..Len(items) :
                /\ items[i][1] = k
                /\ \A j \in (i + 1)..Len(items) : items[j][1] # k][2]]


\* a variant whose test keeps the entries without a file
PostInitOfNone(seed) ==
    DictOf([i \in 1..Len(SelectSeq(seed, LAMBDA it : it[2] = NoFile)) |->
              LET it == SelectSeq(seed, LAMBDA x : x[2] = NoFile)[i]
              IN <<it[2], it[1]>>])

\* __post_init__: {val: key for key, val in by_fullnames.items() if val is not None}
PostInit(seed) ==
    DictOf([i \in 1..Len(SelectSeq(seed, LAMBDA it : it[2] # NoFile)) |->
              LET it == SelectSeq(seed, LAMBDA x : x[2] # NoFile)[i]
              IN <<it[2], it[1]>>])

\* get_name: self.inverse.get(file)
GetName(inv, file) == IF file \in DOMAIN inv THEN inv[file] ELSE NoName

\* the fallback of get: find_spec(name), kept when its origin is under root
FindSpec(name) ==
    IF name \notin DOMAIN Finder[project] THEN NoFile
    ELSE LET sp == Finder[project][name]
         IN IF sp.inroot THEN sp.origin ELSE NoFile

\* get: the value returned
RegistryGet(bf, name) ==
    IF name \notin DOMAIN bf THEN FindSpec(name) ELSE bf[name]


\* a variant that stores a lookup only when a file was found
RegistryFillFound(bf, names) ==
    [n \in DOMAIN bf \cup {x \in names : RegistryGet(bf, x) # NoFile} |->
        RegistryGet(bf, n)]

\* get: by_fullnames after the names of `names` were looked up
RegistryFill(bf, names) ==
    [n \in DOMAIN bf \cup names |-> RegistryGet(bf, n)]

\* get: the names of `names` whose lookup takes the find_spec branch
Fallbacks(bf, names) == names \ DOMAIN bf

\* the count of find_spec calls after one more for each name of `names`
Counted(count, names) ==
    [n \in DOMAIN count \cup names |->
        (IF n \in DOMAIN count THEN count[n] ELSE 0) + (IF n \in names THEN 1 ELSE 0)]

-----------------------------------------------------------------------------
(* list_dependencies *)

\* file.with_suffix("").__str__().split("/")
PathParts(file) == file.dir \o <<file.stem>>

\* file.read_text() and ast.parse
ReadText(file) ==
    IF file \in DOMAIN Disk[project] THEN Disk[project][file]
    ELSE Broken(file, "FileNotFoundError")

\* the identifier one import statement adds
DepName(stmt, parts) ==
    IF stmt.kind = "Import" THEN stmt.name
    ELSE IF stmt.module # <<>>
         THEN IF stmt.level > 0
              THEN LastN(parts, stmt.level) \o stmt.module \o stmt.name
              ELSE stmt.module \o stmt.name
         ELSE LastN(parts, stmt.level) \o stmt.name

\* a variant without the assertion
LevelOkAlways(stmt, parts) == TRUE

\* assert len(parts) >= level
LevelOk(stmt, parts) ==
    \/ stmt.kind = "Import"
    \/ stmt.module # <<>> /\ stmt.level = 0
    \/ Len(parts) >= stmt.level


\* a variant that adds no ancestor package
AncestorsOmitted(names) == names

\* a variant that adds the parent package only, not the packages above it
AncestorsParentOnly(names) ==
    names \cup {SubSeq(n, 1, Len(n) - 1) : n \in {x \in names : Len(x) > 1}}

\* while "." in dependency: dependency, *_ = dependency.rpartition(".")
Ancestors(names) ==
    names \cup UNION {{SubSeq(n, 1, k) : k \in 1..(Len(n) - 1)} : n \in names}


\* a variant that takes a file it cannot read or parse as importing nothing
ListDependenciesLenient(file, package) ==
    LET parts == IF package # NoName THEN package ELSE PathParts(file)
        src == ReadText(file)
    IN IF src.status # "ok" \/ \E stmt \in src.imports : ~LevelOk(stmt, parts)
       THEN [error |-> "none", deps |-> {}]
       ELSE [error |-> "none",
             deps |-> Ancestors({DepName(stmt, parts) : stmt \in src.imports})]

ListDependencies(file, package) ==
    LET parts == IF package # NoName THEN package ELSE PathParts(file)
        src == ReadText(file)
    IN IF src.status # "ok" THEN [error |-> src.status, deps |-> {}]
       ELSE IF \E stmt \in src.imports : ~LevelOk(stmt, parts)
            THEN [error |-> "AssertionError", deps |-> {}]
            ELSE [error |-> "none",
                  deps |-> Ancestors({DepName(stmt, parts) : stmt \in src.imports})]

-----------------------------------------------------------------------------
(* select_files *)

EmptyDict == [t \in {} |-> {}]

NoRound == [selection |-> {}, explored |-> EmptyDict, frontier |-> {}]

NoPrev == [pc |-> "none", selection |-> {}, error |-> "none", changed |-> {}, runs |-> 0]

\* the (name, file) pairs a loop over `names` adds to acc
Edges(bf, names, skip) ==
    {<<n, RegistryGet(bf, n)>> :
        n \in {x \in names : RegistryGet(bf, x) # NoFile /\ RegistryGet(bf, x) \notin skip}}


\* a variant that takes every project file for a changed one
ScansAnyFile(bf, deps, skip) ==
    LET hits == {n \in deps : RegistryGet(bf, n) # NoFile}
    IN IF hits = {}
       THEN {[looked |-> deps, edges |-> Edges(bf, deps, skip), hit |-> FALSE]}
       ELSE {[looked |-> before \cup {h}, edges |-> Edges(bf, before, skip), hit |-> TRUE] :
                h \in hits, before \in SUBSET (deps \ hits)}

\* One loop over a dependency set, in any iteration order: the names looked up,
\* the pairs added to acc, and whether a changed file was met (the break).
Scans(bf, deps, skip) ==
    LET hits == {n \in deps : RegistryGet(bf, n) \in changed}
    IN IF hits = {}
       THEN {[looked |-> deps, edges |-> Edges(bf, deps, skip), hit |-> FALSE]}
       ELSE {[looked |-> before \cup {h}, edges |-> Edges(bf, before, skip), hit |-> TRUE] :
                h \in hits, before \in SUBSET (deps \ hits)}

\* the cache of list_dependencies after a call: a hit returns the stored set
Memoized(m, key, deps) ==
    [k \in DOMAIN m \cup {key} |-> IF k \in DOMAIN m THEN m[k] ELSE deps]

\* the log of calls, with list_dependencies(file, package) called for target t
Logged(t, file, package) ==
    [x \in DOMAIN calls \cup {t} |->
        IF x = t THEN (IF t \in DOMAIN calls THEN calls[t] ELSE <<>>) \o <<(<<file, package>>)>>
        ELSE calls[x]]

Enter ==
    /\ pc' = "start"
    /\ target_files' = {}
    /\ selection' = {}
    /\ queued' = EmptyDict
    /\ explored' = EmptyDict
    /\ round' = 0
    /\ todo' = {}
    /\ tmp' = EmptyDict
    /\ cur' = NoFile
    /\ work' = {}
    /\ acc' = {}
    /\ error' = "none"
    /\ calls' = EmptyDict
    /\ begun' = NoRound

Fail(kind) ==
    /\ pc' = "error"
    /\ error' = kind


\* a variant without Step 0: changed targets are expanded like the others
StartWithoutDirectHits ==
    /\ pc = "start"
    /\ selection' = {}
    /\ target_files' = targets
    /\ IF target_files' = {}
       THEN pc' = "done" /\ todo' = {}
       ELSE pc' = "step1" /\ todo' = target_files'
    /\ UNCHANGED <<project, targets, changed, by_fullnames, inverse, memo, queued,
                   explored, round, tmp, cur, work, acc, error, calls, begun, finds,
                   prev, plugin>>


\* a variant of Step 0 that removes the changed targets from the caller's set
StartInPlace ==
    /\ pc = "start"
    /\ selection' = targets \cap changed
    /\ targets' = targets \ (targets \cap changed)
    /\ target_files' = targets'
    /\ IF target_files' = {}
       THEN pc' = "done" /\ todo' = {}
       ELSE pc' = "step1" /\ todo' = target_files'
    /\ UNCHANGED <<project, changed, by_fullnames, inverse, memo, queued,
                   explored, round, tmp, cur, work, acc, error, calls, begun, finds,
                   prev, plugin>>

\* lines 68-73
Start ==
    /\ pc = "start"
    /\ selection' = targets \cap changed
    /\ target_files' = targets \ (targets \cap changed)
    /\ IF target_files' = {}
       THEN pc' = "done" /\ todo' = {}
       ELSE pc' = "step1" /\ todo' = target_files'
    /\ UNCHANGED <<project, targets, changed, by_fullnames, inverse, memo, queued,
                   explored, round, tmp, cur, work, acc, error, calls, begun, finds,
                   prev, plugin>>

\* lines 77-90, one iteration of `for target_file in list(target_files)`
Step1(t) ==
    /\ pc = "step1"
    /\ t \in todo
    /\ LET test_package == GetName(inverse, t)
           r == ListDependencies(t, test_package)
       IN /\ calls' = Logged(t, t, test_package)
          /\ IF r.error # "none"
             THEN /\ Fail(r.error)
                  /\ UNCHANGED <<by_fullnames, finds, memo, target_files, selection,
                                 queued, todo>>
             ELSE \E scan \in Scans(by_fullnames, r.deps, {}) :
                    /\ memo' = Memoized(memo, <<t, test_package>>, r.deps)
                    /\ by_fullnames' = RegistryFill(by_fullnames, scan.looked)
                    /\ finds' = Counted(finds, Fallbacks(by_fullnames, scan.looked))
                    /\ target_files' = IF scan.hit THEN target_files \ {t}
                                       ELSE target_files
                    /\ selection' = IF scan.hit THEN selection \cup {t} ELSE selection
                    /\ queued' = IF scan.edges # {}
                                 THEN [x \in DOMAIN queued \cup {t} |->
                                         IF x = t THEN scan.edges ELSE queued[x]]
                                 ELSE queued
                    /\ todo' = todo \ {t}
                    /\ pc' = IF todo \ {t} = {} THEN "loop" ELSE "step1"
                    /\ error' = error
    /\ UNCHANGED <<project, targets, changed, inverse, explored, round, tmp, cur,
                   work, acc, begun, prev, plugin>>

\* line 93-94: the next iteration of `for _ in range(100)` begins
BeginRound ==
    /\ pc = "loop"
    /\ round < MaxRounds
    /\ round' = round + 1
    /\ tmp' = queued
    /\ queued' = EmptyDict
    /\ begun' = [selection |-> selection, explored |-> explored,
                 frontier |-> DOMAIN queued]
    /\ pc' = "round"
    /\ UNCHANGED <<project, targets, changed, by_fullnames, inverse, memo,
                   target_files, selection, explored, todo, cur, work, acc, error,
                   calls, finds, prev, plugin>>


\* a variant that returns what was selected when the range is exhausted
RaiseReturnsPartial ==
    /\ pc = "loop"
    /\ round >= MaxRounds
    /\ pc' = "done"
    /\ UNCHANGED <<project, targets, changed, by_fullnames, inverse, memo,
                   target_files, selection, queued, explored, round, todo, tmp, cur,
                   work, acc, error, calls, begun, finds, prev, plugin>>

\* lines 121-122: the range is exhausted without a break
Raise ==
    /\ pc = "loop"
    /\ round >= MaxRounds
    /\ Fail("RecursionError")
    /\ UNCHANGED <<project, targets, changed, by_fullnames, inverse, memo,
                   target_files, selection, queued, explored, round, todo, tmp, cur,
                   work, acc, calls, begun, finds, prev, plugin>>

\* lines 95-100, the next item of tmp
PickTarget(t) ==
    /\ pc = "round"
    /\ cur = NoFile
    /\ t \in DOMAIN tmp
    /\ tmp' = [x \in DOMAIN tmp \ {t} |-> tmp[x]]
    /\ IF t \in selection
       THEN UNCHANGED <<cur, work, acc>>
       ELSE cur' = t /\ work' = tmp[t] /\ acc' = {}
    /\ UNCHANGED <<project, targets, changed, by_fullnames, inverse, memo, pc,
                   target_files, selection, queued, explored, round, todo, error,
                   calls, begun, finds, prev, plugin>>


\* a variant that forgets what was expanded for a target
ExploredOfNothing(t) == {}

\* explored[target_file], a defaultdict(set)
ExploredOf(t) == IF t \in DOMAIN explored THEN explored[t] ELSE {}

\* lines 101-114, one iteration of `for dep_fullname, dep_file in dependencies`
Expand(e) ==
    /\ pc = "round"
    /\ cur # NoFile
    /\ e \in work
    /\ work' = work \ {e}
    /\ LET dep_fullname == e[1]
           dep_file == e[2]
           r == ListDependencies(dep_file, dep_fullname)
       IN IF dep_file \in ExploredOf(cur)
          THEN UNCHANGED <<by_fullnames, finds, memo, pc, target_files, selection,
                           explored, acc, error, calls>>
          ELSE IF r.error # "none"
               THEN /\ Fail(r.error)
                    /\ calls' = Logged(cur, dep_file, dep_fullname)
                    /\ UNCHANGED <<by_fullnames, finds, memo, target_files,
                                   selection, explored, acc>>
               ELSE \E scan \in Scans(by_fullnames, r.deps, ExploredOf(cur)) :
                      /\ memo' = Memoized(memo, <<dep_file, dep_fullname>>, r.deps)
                      /\ calls' = Logged(cur, dep_file, dep_fullname)
                      /\ by_fullnames' = RegistryFill(by_fullnames, scan.looked)
                      /\ finds' = Counted(finds, Fallbacks(by_fullnames, scan.looked))
                      /\ target_files' = IF scan.hit THEN target_files \ {cur}
                                         ELSE target_files
                      /\ selection' = IF scan.hit THEN selection \cup {cur}
                                      ELSE selection
                      /\ acc' = acc \cup scan.edges
                      /\ explored' = [x \in DOMAIN explored \cup {cur} |->
                                        IF x = cur THEN ExploredOf(cur) \cup {dep_file}
                                        ELSE explored[x]]
                      /\ UNCHANGED <<pc, error>>
    /\ UNCHANGED <<project, targets, changed, inverse, queued, round, todo, tmp,
                   cur, begun, prev, plugin>>

\* lines 115-117
FinishTarget ==
    /\ pc = "round"
    /\ cur # NoFile
    /\ work = {}
    /\ queued' = IF acc # {} /\ cur \notin selection
                 THEN [x \in DOMAIN queued \cup {cur} |->
                         IF x = cur THEN acc ELSE queued[x]]
                 ELSE queued
    /\ cur' = NoFile
    /\ UNCHANGED <<project, targets, changed, by_fullnames, inverse, memo, pc,
                   target_files, selection, explored, round, todo, tmp, work, acc,
                   error, calls, begun, finds, prev, plugin>>

\* lines 119-120 and 124
EndRound ==
    /\ pc = "round"
    /\ cur = NoFile
    /\ DOMAIN tmp = {}
    /\ pc' = IF queued = EmptyDict THEN "done" ELSE "loop"
    /\ UNCHANGED <<project, targets, changed, by_fullnames, inverse, memo,
                   target_files, selection, queued, explored, round, todo, tmp, cur,
                   work, acc, error, calls, begun, finds, prev, plugin>>

-----------------------------------------------------------------------------
(* plugin.py: pytest_collection_modifyitems *)

File(dir, stem, ext) == [dir |-> dir, stem |-> stem, ext |-> ext]

\* Path.name
Name(file) == <<file.stem, file.ext>>

\* lines 56-69, the default short circuit files
DefaultShortCircuits ==
    {File(<<>>, "pyproject", "toml"), File(<<>>, "requirements", "txt"),
     File(<<>>, "poetry", "lock"), File(<<>>, "uv", "lock"),
     File(<<>>, "pylock", "toml"), File(<<>>, "Pipfile", "lock"),
     File(<<>>, "Pipfile", ""), File(<<>>, "pdm", "lock"),
     File(<<>>, "setup", "cfg"), File(<<>>, "setup", "py"),
     File(<<>>, "requirements", "in"), File(<<>>, "pytest", "ini")}

\* a path of the ini option gitscope_short_circuits: where it points, whether
\* that is under session.startpath, whether it holds a "*"
Custom(path, inroot, star) == [path |-> path, inroot |-> inroot, star |-> star]

NoReport == [kind |-> "none", files |-> {}]

\* what the hook is called with, and what the repository and the ini file hold
HookInputs ==
    [items : {<<>>, <<Py(<<"tests">>, "test_a")>>,
              <<Py(<<"tests">>, "test_a"), Py(<<"tests">>, "test_b"),
                Py(<<"tests">>, "test_a")>>},
     rev : {"", "HEAD~1"},
     diff : SUBSET {File(<<>>, "pyproject", "toml"), File(<<"sub">>, "setup", "py"),
                    Py(<<"tests">>, "conftest"), Py(<<"src">>, "mod"),
                    File(<<"reqs">>, "dev", "txt")},
     custom : {<<>>,
               <<Custom(File(<<"reqs">>, "dev", "txt"), TRUE, FALSE)>>,
               <<Custom(File(<<"reqs">>, "*", "txt"), TRUE, TRUE)>>,
               <<Custom(File(<<"reqs">>, "dev", "txt"), TRUE, FALSE),
                 Custom(File(<<"shared">>, "constraints", "txt"), FALSE, FALSE)>>}]

PluginOff ==
    [pc |-> "off", items |-> <<>>, collected |-> <<>>, rev |-> "", diff |-> {},
     custom |-> <<>>, changed_files |-> {}, report |-> NoReport, raised |-> "none",
     attempts |-> 0]

\* diff.get_changed_files(root, before=rev)
GetChangedFiles(root, before) == plugin.diff

\* Path().glob(pattern)
Glob(pattern) ==
    IF pattern = File(<<"reqs">>, "*", "txt") THEN {File(<<"reqs">>, "dev", "txt")}
    ELSE {}

\* lines 76-82: the custom paths unfolded, up to the first that relative_to rejects
RECURSIVE Unfold(_, _)
Unfold(custom_paths, unfolded) ==
    IF custom_paths = <<>> THEN [raised |-> "none", paths |-> unfolded]
    ELSE LET custom_path == Head(custom_paths)
         IN IF ~custom_path.inroot THEN [raised |-> "ValueError", paths |-> {}]
            ELSE Unfold(Tail(custom_paths),
                        unfolded \cup (IF custom_path.star THEN Glob(custom_path.path)
                                       ELSE {custom_path.path}))

\* the parameters of select_files (selector.py lines 63-67)
SelectFilesParameters == {"target_files", "changed_files", "modules_registry"}

\* a call by keywords binds when each keyword is a parameter and none is missing
Binds(keywords) == keywords = SelectFilesParameters

\* lines 47-54
HookStart ==
    /\ plugin.pc = "collected"
    /\ IF plugin.items = <<>> \/ plugin.rev = ""
       THEN plugin' = [plugin EXCEPT !.pc = "returned"]
       ELSE plugin' = [plugin EXCEPT !.pc = "short_circuits",
                                     !.changed_files = GetChangedFiles("root", plugin.rev)]
    /\ UNCHANGED <<project, targets, changed, by_fullnames, inverse, memo, pc,
                   target_files, selection, queued, explored, round, todo, tmp, cur,
                   work, acc, error, calls, begun, finds, prev>>

\* lines 56-92
ShortCircuits ==
    /\ plugin.pc = "short_circuits"
    /\ LET defaults == plugin.changed_files \cap DefaultShortCircuits
           unfolded == Unfold(plugin.custom, {})
           short_circuit_files ==
               IF defaults = {} /\ plugin.custom # <<>>
               THEN plugin.changed_files \cap unfolded.paths
               ELSE defaults
       IN IF defaults = {} /\ plugin.custom # <<>> /\ unfolded.raised # "none"
          THEN plugin' = [plugin EXCEPT !.pc = "raised", !.raised = unfolded.raised]
          ELSE IF short_circuit_files # {}
               THEN plugin' = [plugin EXCEPT
                                 !.pc = "returned",
                                 !.report = [kind |-> "short_circuit",
                                             files |-> short_circuit_files]]
               ELSE plugin' = [plugin EXCEPT !.pc = "conftest_changed"]
    /\ UNCHANGED <<project, targets, changed, by_fullnames, inverse, memo, pc,
                   target_files, selection, queued, explored, round, todo, tmp, cur,
                   work, acc, error, calls, begun, finds, prev>>

\* lines 94-107
ConftestChanged ==
    /\ plugin.pc = "conftest_changed"
    /\ LET changed_conftest_files ==
               {f \in plugin.changed_files : Name(f) = <<"conftest", "py">>}
       IN IF changed_conftest_files # {}
          THEN plugin' = [plugin EXCEPT
                            !.pc = "returned",
                            !.report = [kind |-> "conftest_changed",
                                        files |-> changed_conftest_files]]
          ELSE plugin' = [plugin EXCEPT !.pc = "conftest_pass"]
    /\ UNCHANGED <<project, targets, changed, by_fullnames, inverse, memo, pc,
                   target_files, selection, queued, explored, round, todo, tmp, cur,
                   work, acc, error, calls, begun, finds, prev>>

\* lines 109-116: select_files(root=, target_files=, changed_files=, modules=)
ConftestPass ==
    /\ plugin.pc = "conftest_pass"
    /\ IF Binds({"root", "target_files", "changed_files", "modules"})
       THEN plugin' = [plugin EXCEPT !.pc = "selecting",
                                     !.attempts = plugin.attempts + 1]
       ELSE plugin' = [plugin EXCEPT !.pc = "raised", !.raised = "TypeError",
                                     !.attempts = plugin.attempts + 1]
    /\ UNCHANGED <<project, targets, changed, by_fullnames, inverse, memo, pc,
                   target_files, selection, queued, explored, round, todo, tmp, cur,
                   work, acc, error, calls, begun, finds, prev>>

-----------------------------------------------------------------------------
(* The caller: select_files is called on a project, and may be called again *)
(* in a new process on the same project with files added to changed_files.  *)

MaxRuns == 2

Returned == pc = "done"

Ended == pc \in {"done", "error"}

Registry ==
    /\ by_fullnames' = DictOf(Catalog[project].seed)
    /\ inverse' = PostInit(Catalog[project].seed)
    /\ memo' = EmptyDict
    /\ finds' = EmptyDict

Call ==
    /\ Ended
    /\ prev.runs + 1 < MaxRuns
    /\ \E c \in Catalog[project].changedsets :
         /\ changed \subseteq c
         /\ Cardinality(c \ changed) <= 1
         /\ changed' = c
    /\ prev' = [pc |-> pc, selection |-> selection, error |-> error,
                changed |-> changed, runs |-> prev.runs + 1]
    /\ Enter
    /\ Registry
    /\ UNCHANGED <<project, targets, plugin>>

InitSelect ==
    /\ project \in Projects
    /\ targets \in Catalog[project].targetsets
    /\ changed \in Catalog[project].changedsets
    /\ pc = "start"
    /\ plugin = PluginOff

InitHook ==
    /\ project = Proj("diamond", {}, 0)
    /\ targets = {}
    /\ changed = {}
    /\ pc = "idle"
    /\ \E in \in HookInputs :
         plugin = [PluginOff EXCEPT !.pc = "collected", !.items = in.items,
                                    !.collected = in.items, !.rev = in.rev,
                                    !.diff = in.diff, !.custom = in.custom]

Init ==
    /\ InitSelect \/ InitHook
    /\ by_fullnames = DictOf(Catalog[project].seed)
    /\ inverse = PostInit(Catalog[project].seed)
    /\ memo = EmptyDict
    /\ finds = EmptyDict
    /\ target_files = {}
    /\ selection = {}
    /\ queued = EmptyDict
    /\ explored = EmptyDict
    /\ round = 0
    /\ todo = {}
    /\ tmp = EmptyDict
    /\ cur = NoFile
    /\ work = {}
    /\ acc = {}
    /\ error = "none"
    /\ calls = EmptyDict
    /\ begun = NoRound
    /\ prev = NoPrev

Next ==
    \/ Start
    \/ \E t \in todo : Step1(t)
    \/ BeginRound
    \/ Raise
    \/ \E t \in DOMAIN tmp : PickTarget(t)
    \/ \E e \in work : Expand(e)
    \/ FinishTarget
    \/ EndRound
    \/ Call
    \/ HookStart
    \/ ShortCircuits
    \/ ConftestChanged
    \/ ConftestPass

Spec == Init /\ [][Next]_vars

-----------------------------------------------------------------------------
(* The import graph the selection is measured against *)

Resolve(name) == RegistryGet(by_fullnames, name)

\* the project files a file imports when it is read as module `node[1]`
Imported(node) ==
    LET r == ListDependencies(node[2], node[1])
    IN IF r.error # "none" THEN {}
       ELSE {<<n, Resolve(n)>> : n \in {x \in r.deps : Resolve(x) # NoFile}}

RECURSIVE Reach(_)
Reach(seen) ==
    LET more == UNION {Imported(nd) : nd \in {x \in seen : x[2] \notin changed}}
    IN IF more \subseteq seen THEN seen ELSE Reach(seen \cup more)

Impacted(t) ==
    \/ t \in changed
    \/ \E nd \in Reach({<<GetName(inverse, t), t>>}) : nd[2] \in changed

Reference == {t \in targets : Impacted(t)}

Outcome == [pc |-> pc, result |-> IF Returned THEN selection ELSE {}, error |-> error]

PrevOutcome ==
    [pc |-> prev.pc, result |-> IF prev.pc = "done" THEN prev.selection ELSE {},
     error |-> prev.error]

AllCalls == UNION {Range(calls[t]) : t \in DOMAIN calls}

-----------------------------------------------------------------------------
(* Claims *)

\* C1: whenever select_files returns, the set returned is exactly the set of
\* targets that are changed or reach a changed file along resolved imports
\* through unchanged project files.
C1_ExactSelection == Returned => selection = Reference

\* C2: a set is returned from the loop only by the break of a round that left
\* nothing queued; when the last round of the range ends with something queued,
\* the only step is the RecursionError.
C2_FixedPointOrRaise ==
    /\ [](Returned /\ round >= 1 => queued = EmptyDict /\ round <= MaxRounds)
    /\ [](pc = "loop" /\ round >= 1 => queued # EmptyDict)
    /\ [][pc = "loop" /\ round >= MaxRounds
            => pc' = "error" /\ error' = "RecursionError"]_vars

C2_Witness ==
    /\ pc = "error"
    /\ error = "RecursionError"
    /\ round = MaxRounds
    /\ queued # EmptyDict

\* C3: two calls with the same targets, changed files, registry and files end
\* the same way: the same set returned, or the same error.
C3_Deterministic ==
    (Ended /\ prev.pc # "none" /\ prev.changed = changed) => Outcome = PrevOutcome

\* C4: with more changed files (same targets, registry and files), a call that
\* returns returns a superset of what the call with fewer changed files returned.
C4_Monotone ==
    (Returned /\ prev.pc = "done" /\ prev.changed \subseteq changed)
        => prev.selection \subseteq selection

\* C5: from Step 0 on every changed target is selected, list_dependencies is
\* never called on a changed target, and when all targets are changed the call
\* returns them at once, reading no file and entering no round.
C5_Directness ==
    pc \notin {"idle", "start"} =>
        /\ targets \cap changed \subseteq selection
        /\ \A c \in AllCalls : c[1] \notin targets \cap changed
        /\ targets \subseteq changed
             => Returned /\ selection = targets /\ AllCalls = {} /\ round = 0

C5_Witness ==
    /\ project.kind = "broken"
    /\ targets = {Gen("tb")}
    /\ Returned
    /\ selection = {Gen("tb")}

\* C6 (as claimed): with no changed file, select_files returns the empty set
\* whatever the targets import.
C6_EmptyChangeReturnsEmpty ==
    (changed = {} /\ Ended) => (Returned /\ selection = {})

\* C6 (amended): with no changed file nothing is ever selected, so a call that
\* returns returns the empty set.
C6_EmptyChangeSelectsNothing == changed = {} => selection = {}

C6_Witness ==
    /\ changed = {}
    /\ targets # {}
    /\ Returned
    /\ round >= 3
    /\ selection = {}

\* C7: a call of list_dependencies on a file that cannot be read or parsed, or
\* whose relative import fails the level assertion, is the last call of the
\* run, which ends with that very error.
C7_ErrorsPropagate ==
    \A t \in DOMAIN calls : \A i \in 1..Len(calls[t]) :
        LET file == calls[t][i][1]
            package == calls[t][i][2]
            src == ReadText(file)
            parts == IF package # NoName THEN package ELSE PathParts(file)
        IN /\ src.status # "ok"
                => pc = "error" /\ error = src.status /\ i = Len(calls[t])
           /\ (src.status = "ok" /\ \E stmt \in src.imports : ~LevelOk(stmt, parts))
                => pc = "error" /\ error = "AssertionError" /\ i = Len(calls[t])

C7_Witness ==
    /\ pc = "error"
    /\ error = "FileNotFoundError"
    /\ round = 2
    /\ \E t \in DOMAIN calls : calls[t][Len(calls[t])][1] = Gen("gone")

\* C8: once a file read for a target (the target itself or a file of its
\* frontier) holds an absolute import of a dotted name one of whose strict
\* prefixes resolves to a changed file, the target is selected.
C8_AncestorPackages ==
    \A t \in DOMAIN calls : \A c \in Range(calls[t]) :
        LET src == ReadText(c[1])
        IN (/\ src.status = "ok"
            /\ \A stmt \in src.imports : stmt.level = 0
            /\ \E stmt \in src.imports :
                 \E k \in 1..(Len(DepName(stmt, <<>>)) - 1) :
                    Resolve(SubSeq(DepName(stmt, <<>>), 1, k)) \in changed)
           => t \in selection

C8_Witness ==
    /\ project.kind = "package"
    /\ changed = {Py(<<"pkg">>, "__init__")}
    /\ Returned
    /\ selection = {Gen("t1"), Gen("t2")}

\* the files of changed_files that trigger a short circuit
DefaultTriggers == plugin.changed_files \cap DefaultShortCircuits

CustomTriggers ==
    IF DefaultTriggers # {} THEN {}
    ELSE plugin.changed_files
            \cap UNION {IF c.star THEN Glob(c.path) ELSE {c.path} : c \in Range(plugin.custom)}

ConftestTriggers == {f \in plugin.changed_files : Name(f) = <<"conftest", "py">>}

Triggers == DefaultTriggers \cup CustomTriggers \cup ConftestTriggers

HookEnded == plugin.pc \in {"returned", "raised", "selecting"}

\* C9: when a default or configured short circuit file, or a conftest.py, is
\* among the changed files, the hook ends without calling select_files, with
\* the items as collected and a report naming triggering files.
C9_ShortCircuitPolicy ==
    (HookEnded /\ Triggers # {}) =>
        /\ plugin.pc = "returned"
        /\ plugin.attempts = 0
        /\ plugin.items = plugin.collected
        /\ plugin.report.kind # "none"
        /\ plugin.report.files # {}
        /\ plugin.report.files \subseteq Triggers

\* C10: with a revision, items, short circuit paths under the root and no
\* short circuit trigger, the hook ends normally, having called select_files
\* with arguments it accepts, and keeps of the collected items those that are
\* left after the call.
C10_SelectiveFiltering ==
    (/\ HookEnded
     /\ plugin.collected # <<>>
     /\ plugin.rev # ""
     /\ \A c \in Range(plugin.custom) : c.inroot
     /\ Triggers = {}) =>
        /\ plugin.pc = "returned"
        /\ plugin.raised = "none"
        /\ plugin.attempts >= 1
        /\ \A i \in 1..Len(plugin.items) : plugin.items[i] \in Range(plugin.collected)

\* the calls of list_dependencies made on behalf of target t in this run
CallsOf(t) == IF t \in DOMAIN calls THEN calls[t] ELSE <<>>

\* C11: once a target is in the selection, no step of the same run calls
\* list_dependencies on its behalf any more, neither for the edges left in the
\* frontier of the current round nor in a later round.
C11_NoExpansionAfterSelection ==
    [][\A t \in selection : prev' = prev => CallsOf(t)' = CallsOf(t)]_vars

RoundOver == pc = "round" /\ cur = NoFile /\ DOMAIN tmp = {}

\* explored[t] as the current round began
ExploredBefore(t) ==
    IF t \in DOMAIN begun.explored THEN begun.explored[t] ELSE {}

\* C13: when a round is over, either a target was added to the selection in
\* it, or the explored set of every target it processed (queued and not yet
\* selected as it began) is strictly larger than as it began.
C13_RoundProgress ==
    RoundOver =>
        \/ selection # begun.selection
        \/ \A t \in begun.frontier \ begun.selection :
              ExploredOf(t) # ExploredBefore(t)

\* C14: the number of rounds begun never exceeds the number of project files
\* by more than one, cycles and self-imports included; so on a project of
\* fewer files than the round cap no iteration order ends in RecursionError.
C14_TerminatesBelowCap ==
    /\ round <= FileCount[project] + 1
    /\ FileCount[project] < MaxRounds => error # "RecursionError"

C14_Witness ==
    /\ project.kind = "ring"
    /\ FileCount[project] = MaxRounds - 1
    /\ Returned
    /\ round = MaxRounds - 1

\* the names the registry was built with
Seeded == DOMAIN DictOf(Catalog[project].seed)

\* C15: find_spec is called at most once per name and never for a seeded
\* name; its outcome, a file or none, is stored under the name; the stored
\* names are the seeded ones and those looked up; and within a run no entry
\* of by_fullnames is changed or removed.
C15_RegistryCaching ==
    /\ [](\A n \in DOMAIN finds :
            /\ finds[n] = 1
            /\ n \notin Seeded
            /\ n \in DOMAIN by_fullnames
            /\ by_fullnames[n] = FindSpec(n))
    /\ [](DOMAIN by_fullnames = Seeded \cup DOMAIN finds)
    /\ [][prev' = prev =>
            \A n \in DOMAIN by_fullnames :
                n \in DOMAIN by_fullnames' /\ by_fullnames'[n] = by_fullnames[n]]_vars

C15_Witness ==
    /\ project.kind = "generic"
    /\ <<"r">> \in DOMAIN finds
    /\ by_fullnames[<<"r">>] = Gen("r")
    /\ finds[<<"r">>] = 1
    /\ Cardinality({k \in DOMAIN memo : <<"r">> \in memo[k]}) >= 2

\* get_name(file) names a module, and that name resolves back to the file
RoundTrip(file) ==
    /\ GetName(inverse, file) # NoName
    /\ Resolve(GetName(inverse, file)) = file

\* C16 (as claimed): every name the registry maps to a file, seeded or added
\* by a lookup, has that file mapped by get_name to a name that resolves back
\* to the file.
C16_InverseOfEveryEntry ==
    \A n \in DOMAIN by_fullnames :
        by_fullnames[n] # NoFile => RoundTrip(by_fullnames[n])

\* C16 (amended): every seeded name with a file has that file mapped by
\* get_name to a name that resolves back to the file; get_name knows the
\* files of seeded names only, a file added by a lookup is not added to it.
C16_InverseOfSeed ==
    /\ \A n \in Seeded : by_fullnames[n] # NoFile => RoundTrip(by_fullnames[n])
    /\ \A f \in DOMAIN inverse : \E n \in Seeded : by_fullnames[n] = f

C16_Witness ==
    /\ project.kind = "generic"
    /\ <<"r">> \in DOMAIN finds
    /\ by_fullnames[<<"r">>] = Gen("r")
    /\ GetName(inverse, Gen("r")) = NoName
    /\ GetName(inverse, Gen("q")) = <<"q">>

\* C17: with a revision, items, short circuit paths under the root and no
\* short circuit trigger, the hook ends having run select_files on the
\* conftest.py files first; when its report names affected conftest.py files,
\* that call was the only one and the items are as collected.
C17_ConftestPassFirst ==
    (/\ HookEnded
     /\ plugin.collected # <<>>
     /\ plugin.rev # ""
     /\ \A c \in Range(plugin.custom) : c.inroot
     /\ Triggers = {}) =>
        /\ plugin.attempts >= 1
        /\ plugin.raised = "none"
        /\ plugin.report.kind = "conftest_affected"
             => plugin.attempts = 1 /\ plugin.items = plugin.collected

\* C18: a step of a run of select_files leaves the caller's target_files and
\* changed_files, the files and the inverse of the registry as they are; what
\* by_fullnames and the cache of list_dependencies hold stays as it is, new
\* entries only are added.
C18_Frame ==
    [][prev' = prev =>
        /\ targets' = targets
        /\ changed' = changed
        /\ project' = project
        /\ inverse' = inverse
        /\ \A n \in DOMAIN by_fullnames :
              n \in DOMAIN by_fullnames' /\ by_fullnames'[n] = by_fullnames[n]
        /\ \A k \in DOMAIN memo :
              k \in DOMAIN memo' /\ memo'[k] = memo[k]]_vars

C18_Witness ==
    /\ Returned
    /\ targets \cap changed # {}
    /\ selection # targets \cap changed
    /\ target_files # targets \ changed
    /\ DOMAIN memo # {}
    /\ DOMAIN finds # {}

\* C19: every set list_dependencies has returned, for whatever file and
\* package context, holds with each dotted name all its strict prefixes.
C19_PrefixClosed ==
    \A k \in DOMAIN memo : \A n \in memo[k] : \A j \in 1..(Len(n) - 1) :
        SubSeq(n, 1, j) \in memo[k]

C19_Witness ==
    \E k \in DOMAIN memo :
        /\ k[2] # NoName
        /\ <<"tests", "test_b", "core">> \in memo[k]
        /\ <<"tests">> \in memo[k]

\* a relative import from above the package context
TooDeep(stmt, parts) == stmt.kind = "ImportFrom" /\ stmt.level > Len(parts)

\* C20: a call of list_dependencies on a readable file with a relative import
\* whose level exceeds the segments of its package context (the package given,
\* or else the path of the file) returns no set: it is the last call of the
\* run, which ends with the AssertionError and returns no selection.
C20_LevelBeyondContext ==
    \A t \in DOMAIN calls : \A i \in 1..Len(calls[t]) :
        LET file == calls[t][i][1]
            package == calls[t][i][2]
            parts == IF package # NoName THEN package ELSE PathParts(file)
        IN (ReadText(file).status = "ok"
              /\ \E stmt \in ReadText(file).imports : TooDeep(stmt, parts))
           => /\ <<file, package>> \notin DOMAIN memo
              /\ i = Len(calls[t])
              /\ pc = "error"
              /\ error = "AssertionError"

C20_Witness ==
    /\ project.kind = "relative"
    /\ pc = "error"
    /\ error = "AssertionError"
    /\ round = 1
    /\ \E t \in DOMAIN calls :
          calls[t][Len(calls[t])] = <<Py(<<"tests">>, "helper"), <<"test_a", "helper">> >>

====
